---- MODULE Spec2Model ----
(***************************************************************************)
(* Model of streamlit_app.py: the notes application's credential store,    *)
(* session state, remember-me cookie in the query parameters, password     *)
(* reset and account deletion.                                             *)
(*                                                                         *)
(* One action is one run of the script, triggered by one widget event,     *)
(* together with the rerun that st.rerun() starts.  Strings are tuples of  *)
(* one-character strings, so that length and membership tests are those    *)
(* of the code.                                                            *)
(***************************************************************************)
EXTENDS Integers, Sequences, FiniteSets, TLC

VARIABLES users, notes, nextUserId, nextNoteId,
          user, notesCache, editing, show_delete_confirm, query_params,
          outbox, deleted, event

vars == <<users, notes, nextUserId, nextNoteId,
          user, notesCache, editing, show_delete_confirm, query_params,
          outbox, deleted, event>>

(***************************************************************************)
(* Bounds of the model.                                                    *)
(***************************************************************************)
MaxUserId == 2
MaxNoteId == 2

(***************************************************************************)
(* Text values the widgets can deliver.                                    *)
(***************************************************************************)
Empty == << >>

UAlice == <<"a", "l">>
UTab == <<"a", "\t", "l">>
USpace == <<"a", " ", "l">>

EA == <<"a", "@", "x">>
EB == <<"b", "@", "x">>
ENoAt == <<"a", "x">>
ValidEmails == {EA, EB}

PSecret == <<"s", "e", "c", "r", "e", "t", "1">>
PSix == <<"a", "b", "c", "d", "e", "f">>
PFive == <<"a", "b", "c", "1", "2">>
PSpace == <<"s", "e", "c", " ", "r", "e", "t">>

TempChars == {"A", "7"}

NoteTexts == {<<"x">>, <<"y">>}
BlankText == <<" ">>

(***************************************************************************)
(* Python's None, as the row that is absent and the session user that is   *)
(* unbound.  A row of users has an id from 1 on.                           *)
(***************************************************************************)
None == [id |-> 0, username |-> Empty, email |-> Empty, password_hash |-> Empty]

Range(s) == {s[i] : i \in DOMAIN s}

\* a digest that forgets the password
hash_password_Constant(password) == <<"sha256">>

\* hashlib.sha256(password.encode()).hexdigest(): one-way and injective
hash_password(password) == <<"sha256">> \o password

\* a check that sees a leading space only
contains_spaces_Leading(text) == text # << >> /\ text[1] = " "

contains_spaces(text) == " " \in Range(text)

HasAt(text) == "@" \in Range(text)

\* str.strip() leaves nothing of a text made of white space only
StripIsEmpty(text) == \A c \in Range(text) : c \in {" ", "\t", "\n"}

\* cur.fetchone() of a RealDictCursor: a row of the result, or None
FetchOne(rows) == IF rows = {} THEN None ELSE CHOOSE r \in rows : TRUE

\* a lookup that compares the email only
verify_user_AnyPassword(us, email, password) == FetchOne({r \in us : r.email = email})

verify_user(us, email, password) ==
    FetchOne({r \in us : r.email = email /\ r.password_hash = hash_password(password)})

\* a lookup that compares the id only
verify_user_by_id_IdOnly(us, user_id, email) == FetchOne({r \in us : r.id = user_id})

verify_user_by_id(us, user_id, email) ==
    FetchOne({r \in us : r.id = user_id /\ r.email = email})

(***************************************************************************)
(* The store: users and notes are the rows of the two tables.  Each        *)
(* operation opens its own connection and commits before it returns.       *)
(***************************************************************************)
\* a table users without unique indexes
UniqueViolation_NoIndex(us, user_id, column, value) == FALSE

\* The unique indexes of the table users, one on username and one on email:
\* a statement that would give the row user_id (0 for a new row) a value
\* another row has in the column raises "duplicate key".
UniqueViolation(us, user_id, column, value) ==
    \E r \in us : r.id # user_id /\ r[column] = value

DuplicateKey(us, username, email) ==
    IF UniqueViolation(us, 0, "username", username) THEN "username"
    ELSE IF UniqueViolation(us, 0, "email", email) THEN "email"
    ELSE "none"

\* INSERT INTO users ... RETURNING id; the unique indexes reject duplicates
create_user(us, newId, username, email, password) ==
    IF DuplicateKey(us, username, email) # "none"
    THEN [raised |-> DuplicateKey(us, username, email), users |-> us, id |-> 0]
    ELSE [raised |-> "none",
          users |-> us \cup {[id |-> newId, username |-> username, email |-> email,
                              password_hash |-> hash_password(password)]},
          id |-> newId]

RECURSIVE NewestFirst(_)
NewestFirst(rows) ==
    IF rows = {} THEN << >>
    ELSE LET newest == CHOOSE r \in rows : \A q \in rows : q.id <= r.id
         IN <<newest>> \o NewestFirst(rows \ {newest})

\* SELECT * FROM notes WHERE user_id = %s ORDER BY created_at DESC
load_notes(ns, user_id) == NewestFirst({n \in ns : n.user_id = user_id})

save_note(ns, newId, content, user_id) ==
    ns \cup {[id |-> newId, user_id |-> user_id, content |-> content]}

update_note(ns, note_id, content) ==
    {IF n.id = note_id THEN [n EXCEPT !.content = content] ELSE n : n \in ns}

delete_note(ns, note_id) == {n \in ns : n.id # note_id}

DeleteFailures == {"none", "notes", "users", "commit"}

\* an except branch that does not roll back: what ran before the failure stays
Rollback_Nothing(us, ns, txUsers, txNotes) == [raised |-> TRUE, users |-> txUsers, notes |-> txNotes]

\* conn.rollback(): the store keeps the rows it had when the transaction began
Rollback(us, ns, txUsers, txNotes) == [raised |-> TRUE, users |-> us, notes |-> ns]

\* a cascade that deletes the notes and leaves the row of the user
delete_user_account_NotesOnly(us, ns, user_id, failAt) ==
    IF failAt # "none"
    THEN [raised |-> TRUE, users |-> us, notes |-> ns]
    ELSE [raised |-> FALSE, users |-> us, notes |-> {n \in ns : n.user_id # user_id}]

\* a cascade that deletes the row of the user and leaves the notes
delete_user_account_UserOnly(us, ns, user_id, failAt) ==
    IF failAt # "none"
    THEN [raised |-> TRUE, users |-> us, notes |-> ns]
    ELSE [raised |-> FALSE, users |-> {r \in us : r.id # user_id}, notes |-> ns]

\* The two DELETE statements and the commit run in one transaction; failAt
\* names the step that raises.  The except branch rolls back and re-raises.
delete_user_account(us, ns, user_id, failAt) ==
    LET txNotes == IF failAt = "notes" THEN ns ELSE {n \in ns : n.user_id # user_id}
        txUsers == IF failAt \in {"notes", "users"} THEN us ELSE {r \in us : r.id # user_id}
    IN IF failAt # "none"
       THEN Rollback(us, ns, txUsers, txNotes)
       ELSE [raised |-> FALSE, users |-> txUsers, notes |-> txNotes]

update_password(us, user_id, new_password) ==
    {IF r.id = user_id THEN [r EXCEPT !.password_hash = hash_password(new_password)]
     ELSE r : r \in us}

\* UPDATE users SET username; the unique index on username rejects a duplicate
update_username(us, user_id, new_username) ==
    IF UniqueViolation(us, user_id, "username", new_username)
    THEN [raised |-> TRUE, users |-> us]
    ELSE [raised |-> FALSE,
          users |-> {IF r.id = user_id THEN [r EXCEPT !.username = new_username]
                     ELSE r : r \in us}]

\* a check for the email that does not exclude the row of the user itself
update_email_AnyRow(us, user_id, new_email) ==
    IF \E r \in us : r.email = new_email
    THEN [raised |-> TRUE, users |-> us]
    ELSE [raised |-> FALSE,
          users |-> {IF r.id = user_id THEN [r EXCEPT !.email = new_email]
                     ELSE r : r \in us}]

update_email(us, user_id, new_email) ==
    IF \E r \in us : r.email = new_email /\ r.id # user_id
    THEN [raised |-> TRUE, users |-> us]
    ELSE [raised |-> FALSE,
          users |-> {IF r.id = user_id THEN [r EXCEPT !.email = new_email]
                     ELSE r : r \in us}]

TempLength == 12

\* ''.join(random.choice(chars) for _ in range(length)): the possible results
generate_temp_password(length) ==
    {[i \in 1..length |-> c] : c \in TempChars}

\* an UPDATE that is not preceded by the existence check: it matches no row
reset_user_password_NoCheck(us, email, temp_password) ==
    [raised |-> FALSE,
     users |-> {IF r.email = email
                THEN [r EXCEPT !.password_hash = hash_password(temp_password)]
                ELSE r : r \in us}]

\* an UPDATE without its WHERE clause
reset_user_password_AllRows(us, email, temp_password) ==
    IF ~ \E r \in us : r.email = email
    THEN [raised |-> TRUE, users |-> us]
    ELSE [raised |-> FALSE,
          users |-> {[r EXCEPT !.password_hash = hash_password(temp_password)] : r \in us}]

\* UPDATE users SET password_hash WHERE email, after the existence check
reset_user_password(us, email, temp_password) ==
    IF ~ \E r \in us : r.email = email
    THEN [raised |-> TRUE, users |-> us]
    ELSE [raised |-> FALSE,
          users |-> {IF r.email = email
                     THEN [r EXCEPT !.password_hash = hash_password(temp_password)]
                     ELSE r : r \in us}]

(***************************************************************************)
(* The remember-me cookie in st.query_params['auth'].  query_params is     *)
(* << >> when the key is absent and <<cookie>> when it is present.  A      *)
(* cookie is a text: json.dumps writes an object, json.loads reads one or  *)
(* raises.                                                                 *)
(***************************************************************************)
json_dumps(obj) == [text |-> "object", obj |-> obj]

json_parses(cookie) == cookie.text = "object"

json_loads(cookie) == cookie.obj

TokenObject(user_id, email) == [keys |-> {"user_id", "email"}, user_id |-> user_id, email |-> email]

EmptyObject == [keys |-> {}, user_id |-> 0, email |-> Empty]

EmptyCookie == [text |-> "", obj |-> EmptyObject]

GarbageCookie == [text |-> "garbage", obj |-> EmptyObject]

TokenIds == 1..MaxUserId

Cookies ==
    {EmptyCookie, GarbageCookie,
     json_dumps([keys |-> {"email"}, user_id |-> 0, email |-> EA]),
     json_dumps([keys |-> {"user_id"}, user_id |-> 1, email |-> Empty])}
    \cup {json_dumps(TokenObject(i, e)) : i \in TokenIds, e \in ValidEmails}

\* a cookie that carries the id only
set_auth_cookie_IdOnly(u) ==
    <<json_dumps([keys |-> {"user_id"}, user_id |-> u.id, email |-> Empty])>>

set_auth_cookie(u) == <<json_dumps(TokenObject(u.id, u.email))>>

\* a logout that leaves the query parameters alone
clear_auth_cookie_Keep(qp) == qp

clear_auth_cookie(qp) == IF qp # << >> THEN << >> ELSE qp

\* a lookup that uses the keys the object has: without "email" the id decides
load_auth_cookie_KeysPresent(qp, us, lookupRaises) ==
    IF qp = << >> THEN None
    ELSE LET cookie == qp[1] IN
         IF cookie.text = "" THEN None
         ELSE IF ~ json_parses(cookie) THEN None
         ELSE LET data == json_loads(cookie) IN
              IF "user_id" \notin data.keys THEN None
              ELSE IF lookupRaises THEN None
              ELSE IF "email" \notin data.keys
                   THEN FetchOne({r \in us : r.id = data.user_id})
                   ELSE verify_user_by_id(us, data.user_id, data.email)

\* The user load_auth_cookie binds to the session, None when it returns False.
\* lookupRaises: the store lookup raises; the bare except swallows it.
load_auth_cookie(qp, us, lookupRaises) ==
    IF qp = << >> THEN None
    ELSE LET cookie == qp[1] IN
         IF cookie.text = "" THEN None
         ELSE IF ~ json_parses(cookie) THEN None
         ELSE LET data == json_loads(cookie) IN
              IF ~ ({"user_id", "email"} \subseteq data.keys) THEN None
              ELSE IF lookupRaises THEN None
              ELSE verify_user_by_id(us, data.user_id, data.email)

Init ==
    /\ users = {}
    /\ notes = {}
    /\ nextUserId = 1
    /\ nextNoteId = 1
    /\ user = None
    /\ notesCache = << >>
    /\ editing = {}
    /\ show_delete_confirm = FALSE
    /\ query_params = << >>
    /\ outbox = << >>
    /\ deleted = {}
    /\ event = [op |-> "init", result |-> "ok"]

(***************************************************************************)
(* Script runs.  A run without a widget event is what st.rerun() starts.   *)
(***************************************************************************)
\* lines 385-390: the cached notes are loaded only when the cache is empty
TopFill(u, cache, ns) == IF cache = << >> THEN load_notes(ns, u.id) ELSE cache

\* the session user after a rerun: an anonymous run tries the cookie first
RerunUser(u, qp, us, lookupRaises) ==
    IF u # None THEN u ELSE load_auth_cookie(qp, us, lookupRaises)

RerunNotes(u, cache, ns) == IF u # None THEN TopFill(u, cache, ns) ELSE cache

Ev(op, result) == [op |-> op, result |-> result]

StoreUnchanged == UNCHANGED <<users, notes, nextUserId, nextNoteId>>

\* A browser session opens on an address: fresh session state (lines 87-93),
\* the query parameters are those of the address, and the script runs once.
SessionStart(qp) ==
    \E lookupRaises \in BOOLEAN :
        LET u == load_auth_cookie(qp, users, lookupRaises) IN
        /\ query_params' = qp
        /\ user' = u
        /\ notesCache' = RerunNotes(u, << >>, notes)
        /\ editing' = {}
        /\ show_delete_confirm' = FALSE
        /\ event' = Ev("session_start", IF u # None THEN "authenticated" ELSE "anonymous")
        /\ StoreUnchanged
        /\ outbox' = << >>
        /\ UNCHANGED deleted

\* Any run of an anonymous session whose cookie resolves: lines 303-306 bind
\* the user and rerun, and the widget event that started the run is dropped.
CookieLogin ==
    /\ user = None
    /\ load_auth_cookie(query_params, users, FALSE) # None
    /\ user' = load_auth_cookie(query_params, users, FALSE)
    /\ notesCache' = RerunNotes(user', notesCache, notes)
    /\ event' = Ev("cookie", "authenticated")
    /\ StoreUnchanged
    /\ outbox' = << >>
    /\ UNCHANGED <<editing, show_delete_confirm, query_params, deleted>>

\* The anonymous page is rendered: the cookie did not resolve in this run.
AnonymousPage ==
    /\ user = None
    /\ \E lookupRaises \in BOOLEAN :
           load_auth_cookie(query_params, users, lookupRaises) = None

LoginInvalid(email, password) ==
    \/ email = Empty \/ password = Empty
    \/ contains_spaces(password)
    \/ ~ HasAt(email)

Login(email, password, remember_me) ==
    /\ AnonymousPage
    /\ IF LoginInvalid(email, password)
       THEN /\ event' = Ev("login", "validation_error")
            /\ UNCHANGED <<user, notesCache, query_params>>
       ELSE LET u == verify_user(users, email, password) IN
            IF u # None
            THEN /\ user' = u
                 /\ query_params' = IF remember_me THEN set_auth_cookie(u) ELSE query_params
                 /\ notesCache' = RerunNotes(u, notesCache, notes)
                 /\ event' = Ev("login", "ok")
            ELSE /\ event' = Ev("login", "invalid")
                 /\ UNCHANGED <<user, notesCache, query_params>>
    /\ StoreUnchanged
    /\ outbox' = << >>
    /\ UNCHANGED <<editing, show_delete_confirm, deleted>>

\* a reset whose store update is undone when the mail cannot be delivered
ForgotPassword_RolledBack(reset_email, temp_password, mailRaises) ==
    /\ AnonymousPage
    /\ IF reset_email = Empty \/ ~ HasAt(reset_email)
       THEN /\ event' = Ev("reset", "validation_error")
            /\ outbox' = << >>
            /\ UNCHANGED users
       ELSE LET r == reset_user_password(users, reset_email, temp_password) IN
            IF r.raised
            THEN /\ event' = Ev("reset", "not_found")
                 /\ outbox' = << >>
                 /\ UNCHANGED users
            ELSE IF mailRaises
                 THEN /\ event' = Ev("reset", "mail_failed")
                      /\ outbox' = << >>
                      /\ UNCHANGED users
                 ELSE /\ users' = r.users
                      /\ outbox' = <<[to |-> reset_email, temp_password |-> temp_password]>>
                      /\ event' = Ev("reset", "ok")
    /\ UNCHANGED <<notes, nextUserId, nextNoteId, user, notesCache, editing,
                   show_delete_confirm, query_params, deleted>>

ForgotPassword(reset_email, temp_password, mailRaises) ==
    /\ AnonymousPage
    /\ IF reset_email = Empty \/ ~ HasAt(reset_email)
       THEN /\ event' = Ev("reset", "validation_error")
            /\ outbox' = << >>
            /\ UNCHANGED users
       ELSE LET r == reset_user_password(users, reset_email, temp_password) IN
            IF r.raised
            THEN /\ event' = Ev("reset", "not_found")
                 /\ outbox' = << >>
                 /\ UNCHANGED users
            ELSE /\ users' = r.users
                 /\ IF mailRaises
                    THEN /\ event' = Ev("reset", "mail_failed")
                         /\ outbox' = << >>
                    ELSE /\ outbox' = <<[to |-> reset_email, temp_password |-> temp_password]>>
                         /\ event' = Ev("reset", "ok")
    /\ UNCHANGED <<notes, nextUserId, nextNoteId, user, notesCache, editing,
                   show_delete_confirm, query_params, deleted>>

SignupInvalid(new_username, new_email, new_password) ==
    \/ new_username = Empty \/ new_email = Empty \/ new_password = Empty
    \/ contains_spaces(new_username) \/ contains_spaces(new_password)
    \/ Len(new_password) < 6
    \/ ~ HasAt(new_email)

Signup(new_username, new_email, new_password) ==
    /\ AnonymousPage
    /\ IF SignupInvalid(new_username, new_email, new_password)
       THEN /\ event' = Ev("signup", "validation_error")
            /\ UNCHANGED <<users, nextUserId>>
       ELSE /\ nextUserId <= MaxUserId
            /\ LET r == create_user(users, nextUserId, new_username, new_email, new_password) IN
               IF r.raised = "none"
               THEN /\ users' = r.users
                    /\ nextUserId' = nextUserId + 1
                    /\ event' = Ev("signup", "ok")
               ELSE /\ event' = Ev("signup", r.raised)
                    /\ UNCHANGED <<users, nextUserId>>
    /\ outbox' = << >>
    /\ UNCHANGED <<notes, nextNoteId, user, notesCache, editing,
                   show_delete_confirm, query_params, deleted>>

(***************************************************************************)
(* The authenticated page (the else branch, lines 383-576).                *)
(***************************************************************************)
Authenticated == user # None

\* the rows the display loop enumerates (line 514)
Displayed == load_notes(notes, user.id)

\* Logout (lines 395-398): the cookie is cleared, the user unbound, rerun
Logout ==
    /\ Authenticated
    /\ LET qp == clear_auth_cookie(query_params) IN
       \E lookupRaises \in BOOLEAN :
           /\ query_params' = qp
           /\ user' = RerunUser(None, qp, users, lookupRaises)
           /\ notesCache' = RerunNotes(user', TopFill(user, notesCache, notes), notes)
    /\ event' = Ev("logout", IF query_params # << >> THEN "cookie_cleared" ELSE "ok")
    /\ StoreUnchanged
    /\ outbox' = << >>
    /\ UNCHANGED <<editing, show_delete_confirm, deleted>>

ChangeUsername(new_username) ==
    /\ Authenticated
    /\ notesCache' = TopFill(user, notesCache, notes)
    /\ IF new_username = Empty \/ contains_spaces(new_username)
       THEN /\ event' = Ev("change_username", "validation_error")
            /\ UNCHANGED <<users, user>>
       ELSE LET r == update_username(users, user.id, new_username) IN
            IF r.raised
            THEN /\ event' = Ev("change_username", "failed")
                 /\ UNCHANGED <<users, user>>
            ELSE /\ users' = r.users
                 /\ user' = [user EXCEPT !.username = new_username]
                 /\ event' = Ev("change_username", "ok")
    /\ outbox' = << >>
    /\ UNCHANGED <<notes, nextUserId, nextNoteId, editing, show_delete_confirm,
                   query_params, deleted>>

ChangeEmail(new_email) ==
    /\ Authenticated
    /\ notesCache' = TopFill(user, notesCache, notes)
    /\ IF new_email = Empty \/ ~ HasAt(new_email)
       THEN /\ event' = Ev("change_email", "validation_error")
            /\ UNCHANGED <<users, user>>
       ELSE LET r == update_email(users, user.id, new_email) IN
            IF r.raised
            THEN /\ event' = Ev("change_email", "already_exists")
                 /\ UNCHANGED <<users, user>>
            ELSE /\ users' = r.users
                 /\ user' = [user EXCEPT !.email = new_email]
                 /\ event' = Ev("change_email", "ok")
    /\ outbox' = << >>
    /\ UNCHANGED <<notes, nextUserId, nextNoteId, editing, show_delete_confirm,
                   query_params, deleted>>

ChangePasswordInvalid(current_password, confirm_current, new_password) ==
    \/ current_password = Empty \/ confirm_current = Empty \/ new_password = Empty
    \/ current_password # confirm_current
    \/ contains_spaces(new_password)
    \/ Len(new_password) < 6

\* a change of password that skips the verification
CurrentPassword_Unchecked(us, u, current_password) == TRUE

\* line 458: the current password is verified against the session's email
CurrentPasswordVerified(us, u, current_password) ==
    verify_user(us, u.email, current_password) # None

ChangePassword(current_password, confirm_current, new_password) ==
    /\ Authenticated
    /\ notesCache' = TopFill(user, notesCache, notes)
    /\ IF ChangePasswordInvalid(current_password, confirm_current, new_password)
       THEN /\ event' = Ev("change_password", "validation_error")
            /\ UNCHANGED users
       ELSE IF CurrentPasswordVerified(users, user, current_password)
            THEN /\ users' = update_password(users, user.id, new_password)
                 /\ event' = Ev("change_password", "ok")
            ELSE /\ event' = Ev("change_password", "incorrect")
                 /\ UNCHANGED users
    /\ outbox' = << >>
    /\ UNCHANGED <<notes, nextUserId, nextNoteId, user, editing, show_delete_confirm,
                   query_params, deleted>>

\* Delete Account (lines 473-474) arms the confirmation
DeleteAccount ==
    /\ Authenticated
    /\ notesCache' = TopFill(user, notesCache, notes)
    /\ show_delete_confirm' = TRUE
    /\ event' = Ev("delete_account", "armed")
    /\ StoreUnchanged
    /\ outbox' = << >>
    /\ UNCHANGED <<user, editing, query_params, deleted>>

\* confirmation buttons that are rendered whatever the flag
ConfirmRendered_Always(flag) == TRUE

\* line 476: the confirmation buttons are rendered only while the flag is set
ConfirmRendered(flag) == flag

\* Yes, Delete (lines 480-488)
YesDelete(failAt) ==
    /\ Authenticated
    /\ ConfirmRendered(show_delete_confirm)
    /\ LET r == delete_user_account(users, notes, user.id, failAt) IN
       /\ users' = r.users
       /\ notes' = r.notes
       /\ IF r.raised
          THEN /\ notesCache' = TopFill(user, notesCache, notes)
               /\ event' = Ev("yes_delete", "failed")
               /\ UNCHANGED <<user, deleted>>
          ELSE \E lookupRaises \in BOOLEAN :
               /\ user' = RerunUser(None, query_params, r.users, lookupRaises)
               /\ notesCache' = RerunNotes(user', << >>, r.notes)
               /\ deleted' = deleted \cup {user.id}
               /\ event' = Ev("yes_delete", "ok")
    /\ outbox' = << >>
    /\ UNCHANGED <<nextUserId, nextNoteId, editing, show_delete_confirm, query_params>>

\* Cancel (lines 490-492)
Cancel ==
    /\ Authenticated
    /\ ConfirmRendered(show_delete_confirm)
    /\ show_delete_confirm' = FALSE
    /\ notesCache' = TopFill(user, notesCache, notes)
    /\ event' = Ev("cancel", "ok")
    /\ StoreUnchanged
    /\ outbox' = << >>
    /\ UNCHANGED <<user, editing, query_params, deleted>>

\* Save (lines 500-510)
Save(new_note) ==
    /\ Authenticated
    /\ IF StripIsEmpty(new_note)
       THEN /\ notesCache' = TopFill(user, notesCache, notes)
            /\ event' = Ev("save", "empty")
            /\ UNCHANGED <<notes, nextNoteId>>
       ELSE /\ nextNoteId <= MaxNoteId
            /\ notes' = save_note(notes, nextNoteId, new_note, user.id)
            /\ nextNoteId' = nextNoteId + 1
            /\ notesCache' = load_notes(notes', user.id)
            /\ event' = Ev("save", "ok")
    /\ outbox' = << >>
    /\ UNCHANGED <<users, nextUserId, user, editing, show_delete_confirm,
                   query_params, deleted>>

\* the edit button of the note at position idx (lines 542-549)
ToggleEdit(idx) ==
    /\ Authenticated
    /\ idx < Len(Displayed)
    /\ editing' = IF idx \in editing THEN editing \ {idx} ELSE editing \cup {idx}
    /\ notesCache' = TopFill(user, notesCache, notes)
    /\ event' = Ev("toggle_edit", "ok")
    /\ StoreUnchanged
    /\ outbox' = << >>
    /\ UNCHANGED <<user, show_delete_confirm, query_params, deleted>>

\* the text area at position idx delivers an edited text (lines 527-538)
EditNote(idx, edited_note) ==
    /\ Authenticated
    /\ idx < Len(Displayed)
    /\ idx \in editing
    /\ edited_note # Displayed[idx + 1].content
    /\ notes' = update_note(notes, Displayed[idx + 1].id, edited_note)
    /\ notesCache' = load_notes(notes', user.id)
    /\ event' = Ev("edit_note", "ok")
    /\ outbox' = << >>
    /\ UNCHANGED <<users, nextUserId, nextNoteId, user, editing, show_delete_confirm,
                   query_params, deleted>>

\* the delete button of the note at position idx (lines 553-559)
DeleteNote(idx) ==
    /\ Authenticated
    /\ idx < Len(Displayed)
    /\ notes' = delete_note(notes, Displayed[idx + 1].id)
    /\ notesCache' = load_notes(notes', user.id)
    /\ event' = Ev("delete_note", "ok")
    /\ outbox' = << >>
    /\ UNCHANGED <<users, nextUserId, nextNoteId, user, editing, show_delete_confirm,
                   query_params, deleted>>

\* Clear all (lines 564-571) deletes every note of the cache, then reruns
ClearAll ==
    /\ Authenticated
    /\ Displayed # << >>
    /\ LET cache == TopFill(user, notesCache, notes) IN
       /\ notes' = {n \in notes : \A i \in DOMAIN cache : cache[i].id # n.id}
       /\ notesCache' = RerunNotes(user, << >>, notes')
    /\ event' = Ev("clear_all", "ok")
    /\ outbox' = << >>
    /\ UNCHANGED <<users, nextUserId, nextNoteId, user, editing, show_delete_confirm,
                   query_params, deleted>>

Positions == 0..(MaxNoteId - 1)

TempPasswords == generate_temp_password(TempLength)

(***************************************************************************)
(* What the user types.  Every form gets the entries that pass its checks  *)
(* and, for each check, an entry that only this check rejects.             *)
(***************************************************************************)
KnownPasswords == {PSix, PSecret} \cup TempPasswords

LoginInputs ==
    {<<e, p>> : e \in ValidEmails, p \in KnownPasswords}
    \cup {<<Empty, PSix>>, <<EA, Empty>>, <<EA, PSpace>>, <<ENoAt, PSix>>}

ResetInputs == ValidEmails \cup {Empty, ENoAt}

SignupInputs ==
    {<<u, e, PSix>> : u \in {UAlice, UTab}, e \in ValidEmails}
    \cup {<<Empty, EA, PSix>>, <<UAlice, Empty, PSix>>, <<UAlice, EA, Empty>>,
          <<USpace, EA, PSix>>, <<UAlice, EA, PSpace>>, <<UAlice, EA, PFive>>,
          <<UAlice, ENoAt, PSix>>}

ChangeUsernameInputs == {UAlice, UTab, USpace, Empty}

ChangeEmailInputs == ValidEmails \cup {Empty, ENoAt}

ChangePasswordInputs ==
    {<<c, c, n>> : c \in KnownPasswords, n \in {PSix, PSecret}}
    \cup {<<Empty, PSix, PSecret>>, <<PSix, Empty, PSecret>>, <<PSix, PSix, Empty>>,
          <<PSix, PSecret, PSecret>>, <<PSix, PSix, PSpace>>, <<PSix, PSix, PFive>>}

SaveInputs == NoteTexts \cup {BlankText}

Addresses == {<< >>} \cup {<<c>> : c \in Cookies}

Next ==
    \/ \E qp \in Addresses : SessionStart(qp)
    \/ CookieLogin
    \/ \E inp \in LoginInputs, remember_me \in BOOLEAN : Login(inp[1], inp[2], remember_me)
    \/ \E reset_email \in ResetInputs, temp_password \in TempPasswords, mailRaises \in BOOLEAN :
           ForgotPassword(reset_email, temp_password, mailRaises)
    \/ \E inp \in SignupInputs : Signup(inp[1], inp[2], inp[3])
    \/ Logout
    \/ \E new_username \in ChangeUsernameInputs : ChangeUsername(new_username)
    \/ \E new_email \in ChangeEmailInputs : ChangeEmail(new_email)
    \/ \E inp \in ChangePasswordInputs : ChangePassword(inp[1], inp[2], inp[3])
    \/ DeleteAccount
    \/ \E failAt \in DeleteFailures : YesDelete(failAt)
    \/ Cancel
    \/ \E new_note \in SaveInputs : Save(new_note)
    \/ \E idx \in Positions : ToggleEdit(idx)
    \/ \E idx \in Positions, edited_note \in NoteTexts : EditNote(idx, edited_note)
    \/ \E idx \in Positions : DeleteNote(idx)
    \/ ClearAll

Spec == Init /\ [][Next]_vars

(***************************************************************************)
(* The session and its cookie: every event of the anonymous page, every    *)
(* address a session can open on, logout, change of email and deletion of  *)
(* the account, for two accounts.                                          *)
(***************************************************************************)
SessionLogins == {<<EA, PSix>>, <<EB, PSix>>, <<EA, PSecret>>, <<ENoAt, PSix>>}

SessionSignups == {<<UAlice, EA, PSix>>, <<UTab, EB, PSix>>, <<UAlice, EA, PFive>>}

SessionNext ==
    \/ \E qp \in Addresses : SessionStart(qp)
    \/ CookieLogin
    \/ \E inp \in SessionLogins, remember_me \in BOOLEAN : Login(inp[1], inp[2], remember_me)
    \/ \E reset_email \in {EA, ENoAt}, temp_password \in TempPasswords, mailRaises \in BOOLEAN :
           ForgotPassword(reset_email, temp_password, mailRaises)
    \/ \E inp \in SessionSignups : Signup(inp[1], inp[2], inp[3])
    \/ Logout
    \/ \E new_email \in ValidEmails : ChangeEmail(new_email)
    \/ DeleteAccount
    \/ \E failAt \in {"none", "users"} : YesDelete(failAt)
    \/ Cancel

SessionSpec == Init /\ [][SessionNext]_vars

(***************************************************************************)
(* Deletion of the account: two accounts with notes, the two-step          *)
(* confirmation and every failure of the cascade.                          *)
(***************************************************************************)
DeleteNext ==
    \/ SessionStart(<< >>)
    \/ \E inp \in {<<EA, PSix>>, <<EB, PSix>>} : Login(inp[1], inp[2], FALSE)
    \/ \E inp \in SessionSignups : Signup(inp[1], inp[2], inp[3])
    \/ Logout
    \/ DeleteAccount
    \/ \E failAt \in DeleteFailures : YesDelete(failAt)
    \/ Cancel
    \/ \E new_note \in {<<"x">>} : Save(new_note)

DeleteSpec == Init /\ [][DeleteNext]_vars

(***************************************************************************)
(* Credentials: signup, login, reset and the changes of the profile with   *)
(* every input of the forms.                                               *)
(***************************************************************************)
CredentialNext ==
    \/ \E inp \in LoginInputs : Login(inp[1], inp[2], FALSE)
    \/ \E reset_email \in ResetInputs, temp_password \in TempPasswords, mailRaises \in BOOLEAN :
           ForgotPassword(reset_email, temp_password, mailRaises)
    \/ \E inp \in SignupInputs : Signup(inp[1], inp[2], inp[3])
    \/ Logout
    \/ \E new_username \in ChangeUsernameInputs : ChangeUsername(new_username)
    \/ \E new_email \in ChangeEmailInputs : ChangeEmail(new_email)
    \/ \E inp \in ChangePasswordInputs : ChangePassword(inp[1], inp[2], inp[3])

CredentialSpec == Init /\ [][CredentialNext]_vars

(***************************************************************************)
(* The notes of two accounts in one session: save, edit, delete and clear  *)
(* all, with logout and login in between.                                  *)
(***************************************************************************)
NotesSignups == {<<UAlice, EA, PSix>>, <<UTab, EB, PSix>>}

NotesNext ==
    \/ \E inp \in NotesSignups : Signup(inp[1], inp[2], inp[3])
    \/ \E inp \in NotesSignups : Login(inp[2], inp[3], FALSE)
    \/ Logout
    \/ \E new_note \in SaveInputs : Save(new_note)
    \/ \E idx \in Positions : ToggleEdit(idx)
    \/ \E idx \in Positions, edited_note \in NoteTexts : EditNote(idx, edited_note)
    \/ \E idx \in Positions : DeleteNote(idx)
    \/ ClearAll

NotesSpec == Init /\ [][NotesNext]_vars

(***************************************************************************)
(* The remembered session: login with and without "Remember me", changes   *)
(* of the profile, logout, and the browser reloading the address it is on. *)
(***************************************************************************)
RememberNext ==
    \/ SessionStart(query_params)
    \/ CookieLogin
    \/ \E inp \in NotesSignups : Signup(inp[1], inp[2], inp[3])
    \/ \E inp \in NotesSignups, remember_me \in BOOLEAN : Login(inp[2], inp[3], remember_me)
    \/ Logout
    \/ \E new_username \in {UAlice, UTab} : ChangeUsername(new_username)
    \/ \E new_email \in ValidEmails : ChangeEmail(new_email)

RememberSpec == Init /\ [][RememberNext]_vars

(***************************************************************************)
(* Properties of the session (SessionSpec).                                *)
(***************************************************************************)
\* the cookie in the query parameters is an object with both keys
IsToken(qp) ==
    /\ qp # << >>
    /\ qp[1].text # ""
    /\ json_parses(qp[1])
    /\ {"user_id", "email"} \subseteq json_loads(qp[1]).keys

\* some row has the id and the email the token names
TokenMatches(qp, us) ==
    /\ IsToken(qp)
    /\ \E r \in us : r.id = json_loads(qp[1]).user_id /\ r.email = json_loads(qp[1]).email

\* C1: an anonymous session becomes authenticated only by a login whose
\* email and password are those of a stored row, or by a run that finds in
\* the address a token that names the id and email of a stored row; the
\* session user is then that row.  Signup, reset and a rejected login leave
\* the session anonymous.
C1_BindOnlyByLoginOrCookie ==
    [][user = None =>
        /\ user' # None =>
             \/ /\ event' = Ev("login", "ok")
                /\ \A inp \in SessionLogins, remember_me \in BOOLEAN :
                       Login(inp[1], inp[2], remember_me) =>
                           /\ user' \in users
                           /\ user'.email = inp[1]
                           /\ user'.password_hash = hash_password(inp[2])
             \/ /\ event'.op \in {"session_start", "cookie"}
                /\ TokenMatches(query_params', users)
                /\ user' \in users
                /\ user'.id = json_loads(query_params'[1]).user_id
        /\ \/ event'.op \in {"signup", "reset"}
           \/ event' \in {Ev("login", "invalid"), Ev("login", "validation_error")}
           => user' = None]_vars

C1_Witness ==
    /\ event = Ev("login", "ok")
    /\ user \in users
    /\ query_params = << >>

\* C2: after a session start on an address whose token names an id and an
\* email that no stored row has together, the session is anonymous.
C2_MismatchedTokenStaysAnonymous ==
    (event.op = "session_start" /\ IsToken(query_params) /\ ~ TokenMatches(query_params, users))
        => user = None

C2_Witness ==
    /\ event.op = "session_start"
    /\ IsToken(query_params)
    /\ \E r \in users : /\ r.id = json_loads(query_params[1]).user_id
                        /\ r.email # json_loads(query_params[1]).email
    /\ user = None

\* C3: a logout leaves the session anonymous and the address without a
\* token, and from an anonymous session on an address without a token only
\* a login, or a session opened on another address, binds a user.
C3_LogoutClearsToken ==
    [][/\ event'.op = "logout" => (user # None /\ user' = None /\ query_params' = << >>)
       /\ (user = None /\ query_params = << >> /\ user' # None) =>
             \/ event' = Ev("login", "ok")
             \/ event'.op = "session_start" /\ query_params' # << >>]_vars

C3_Witness ==
    /\ event = Ev("logout", "cookie_cleared")
    /\ user = None
    /\ query_params = << >>

\* the token in the address names a deleted account
TokenOfDeleted(qp) == IsToken(qp) /\ json_loads(qp[1]).user_id \in deleted

C5_CascadeAtomic ==
    [][event'.op = "yes_delete" =>
        \/ /\ event'.result = "ok"
           /\ users' = {r \in users : r.id # user.id}
           /\ notes' = {n \in notes : n.user_id # user.id}
           /\ users' # users
        \/ /\ event'.result = "failed"
           /\ users' = users
           /\ notes' = notes
           /\ user' = user
           /\ user # None]_vars

C5_Witness ==
    /\ event = Ev("yes_delete", "failed")
    /\ user \in users
    /\ \E n \in notes : n.user_id = user.id

\* C6: for every account deleted so far, load_notes returns no row and
\* verify_user_by_id returns None for every email.
C6_DeletedLeavesNothing ==
    \A user_id \in deleted :
        /\ load_notes(notes, user_id) = << >>
        /\ \A email \in ValidEmails \cup {Empty, ENoAt} :
               verify_user_by_id(users, user_id, email) = None

C6_Witness ==
    /\ deleted # {}
    /\ notes # {}
    /\ \E r \in users : r.id > 1 /\ r.email = EA /\ 1 \in deleted

\* C7: rows of users disappear only in a run of Yes, Delete, which needs the
\* flag set; the flag is set only by Delete Account; Cancel clears the flag
\* and leaves the store as it was.
C7_TwoStepConfirmation ==
    [][/\ (event'.op = "yes_delete" \/ ~ (users \subseteq users')) =>
              (show_delete_confirm /\ event'.op = "yes_delete")
       /\ (show_delete_confirm' /\ ~ show_delete_confirm) => event'.op = "delete_account"
       /\ event'.op = "cancel" =>
              /\ show_delete_confirm
              /\ ~ show_delete_confirm'
              /\ users' = users
              /\ notes' = notes]_vars

C7_Witness ==
    /\ event = Ev("cancel", "ok")
    /\ ~ show_delete_confirm
    /\ user \in users
    /\ \E n \in notes : n.user_id = user.id

(***************************************************************************)
(* Properties of the credentials (CredentialSpec).                         *)
(***************************************************************************)
\* C8: a change of password whose current password is not the one stored
\* for the session's email leaves every row as it was, and a change of
\* password that changes a row was given the stored password.
C8_ChangeNeedsCurrentPassword ==
    [][\A inp \in ChangePasswordInputs :
          ChangePassword(inp[1], inp[2], inp[3]) =>
              IF \E r \in users : r.email = user.email /\ r.password_hash = hash_password(inp[1])
              THEN TRUE
              ELSE users' = users /\ event'.result \in {"incorrect", "validation_error"}]_vars

C8_Witness ==
    /\ event = Ev("change_password", "incorrect")
    /\ user # None
    /\ \E r \in users : r.id = user.id /\ r.password_hash = hash_password(PSix)

\* the characters the claim counts as white space
WhiteSpace == {" ", "\t", "\n"}

HasWhiteSpace(text) == Range(text) \cap WhiteSpace # {}

\* C9: a signup with an empty field, white space in the username
\* or the password, a password shorter than 6 or an email without "@" is
\* rejected and leaves the store as it was.
C9_WhiteSpaceRejected ==
    [][\A inp \in SignupInputs :
          (/\ Signup(inp[1], inp[2], inp[3])
           /\ \/ Empty \in {inp[1], inp[2], inp[3]}
              \/ HasWhiteSpace(inp[1]) \/ HasWhiteSpace(inp[3])
              \/ Len(inp[3]) < 6
              \/ "@" \notin Range(inp[2]))
          => (users' = users /\ nextUserId' = nextUserId
              /\ event' = Ev("signup", "validation_error"))]_vars

\* What the validation of the signup form does enforce: an empty field, a
\* space character in the username or the password, a password shorter than
\* 6 or an email without "@" is rejected and leaves the store as it was.
SignupRejectsSpaces ==
    [][\A inp \in SignupInputs :
          (/\ Signup(inp[1], inp[2], inp[3])
           /\ \/ Empty \in {inp[1], inp[2], inp[3]}
              \/ " " \in Range(inp[1]) \/ " " \in Range(inp[3])
              \/ Len(inp[3]) < 6
              \/ "@" \notin Range(inp[2]))
          => (users' = users /\ nextUserId' = nextUserId
              /\ event' = Ev("signup", "validation_error"))]_vars

\* C10: a reset for the email of a stored row takes a temporary password of
\* length 12; afterwards that password passes the login form and verifies
\* for the email, no other password verifies for it, and the rows of the
\* other emails are as they were.
C10_ResetReplacesPassword ==
    [][\A reset_email \in ResetInputs, temp_password \in TempPasswords, mailRaises \in BOOLEAN :
          (/\ ForgotPassword(reset_email, temp_password, mailRaises)
           /\ \E r \in users : r.email = reset_email)
          => /\ Len(temp_password) = 12
             /\ ~ LoginInvalid(reset_email, temp_password)
             /\ \E r \in users' : /\ r.email = reset_email
                                  /\ r.password_hash = hash_password(temp_password)
             /\ \A p \in KnownPasswords \ {temp_password} :
                    ~ \E r \in users' : /\ r.email = reset_email
                                        /\ r.password_hash = hash_password(p)
             /\ \A r \in users : r.email # reset_email => r \in users']_vars

C10_Witness ==
    /\ event = Ev("reset", "ok")
    /\ Len(outbox) = 1
    /\ verify_user(users, outbox[1].to, outbox[1].temp_password) # None
    /\ verify_user(users, outbox[1].to, PSix) = None
    /\ \E r \in users : r.email # outbox[1].to /\ r.password_hash = hash_password(PSix)

\* C11: a reset for an email that no stored row has raises "Email not found"
\* in reset_user_password; the form reports not found (or rejects the email
\* before the store call when it is empty or has no "@"), every row is as it
\* was and no mail is sent.
C11_UnknownEmailNotFound ==
    [][\A reset_email \in ResetInputs, temp_password \in TempPasswords, mailRaises \in BOOLEAN :
          (/\ ForgotPassword(reset_email, temp_password, mailRaises)
           /\ ~ \E r \in users : r.email = reset_email)
          => /\ reset_user_password(users, reset_email, temp_password).raised
             /\ reset_user_password(users, reset_email, temp_password).users = users
             /\ event' = IF reset_email = Empty \/ ~ HasAt(reset_email)
                         THEN Ev("reset", "validation_error")
                         ELSE Ev("reset", "not_found")
             /\ users' = users
             /\ outbox' = << >>]_vars

C11_Witness ==
    /\ event = Ev("reset", "not_found")
    /\ users # {}
    /\ outbox = << >>

\* C12: a reset for the email of a stored row commits the hash of the
\* temporary password before the mail is sent: when the delivery fails the
\* form reports the failure, no mail is out, the temporary password verifies
\* for the email and no other password does.  In the state a failed delivery
\* leaves, the reset form can be submitted again for every stored email and
\* every temporary password, and that reset overwrites the hash again.
C12_ResetNotRolledBack ==
    /\ [][\A reset_email \in ResetInputs, temp_password \in TempPasswords :
             (/\ ForgotPassword(reset_email, temp_password, TRUE)
              /\ \E r \in users : r.email = reset_email)
             => /\ event' = Ev("reset", "mail_failed")
                /\ outbox' = << >>
                /\ users' = reset_user_password(users, reset_email, temp_password).users
                /\ verify_user(users', reset_email, temp_password) # None
                /\ \A p \in KnownPasswords \ {temp_password} :
                       verify_user(users', reset_email, p) = None]_vars
    /\ [](event = Ev("reset", "mail_failed") =>
             /\ users # {}
             /\ \A r \in users, temp_password \in TempPasswords, mailRaises \in BOOLEAN :
                    /\ ENABLED ForgotPassword(r.email, temp_password, mailRaises)
                    /\ verify_user(reset_user_password(users, r.email, temp_password).users,
                                   r.email, temp_password) # None)

C12_Witness ==
    /\ event = Ev("reset", "mail_failed")
    /\ outbox = << >>
    /\ \E r \in users : /\ r.email = EA
                        /\ r.password_hash \in {hash_password(t) : t \in TempPasswords}
    /\ verify_user(users, EA, PSix) = None

\* the passwords a login can be tried with
TriedPasswords == KnownPasswords \cup {PFive, PSpace, Empty}

\* C13: after a signup that created a row, verify_user with the email and
\* the password of the signup returns the new row, whose username and email
\* are those of the signup, and verify_user with any other password returns
\* None.  The same holds of create_user applied to every reachable store
\* and every valid username, email and password.
C13_CreateThenVerify ==
    /\ [][\A inp \in SignupInputs :
             (Signup(inp[1], inp[2], inp[3]) /\ event' = Ev("signup", "ok"))
             => /\ verify_user(users', inp[2], inp[3]) \in users' \ users
                /\ verify_user(users', inp[2], inp[3]).username = inp[1]
                /\ verify_user(users', inp[2], inp[3]).email = inp[2]
                /\ \A p \in TriedPasswords \ {inp[3]} :
                       verify_user(users', inp[2], p) = None]_vars
    /\ [](\A username \in {UAlice, UTab}, email \in ValidEmails, password \in {PSix, PSecret} :
             LET r == create_user(users, nextUserId, username, email, password) IN
             r.raised = "none" =>
                 /\ verify_user(r.users, email, password).id = r.id
                 /\ verify_user(r.users, email, password).username = username
                 /\ verify_user(r.users, email, password).email = email
                 /\ \A p \in TriedPasswords \ {password} :
                        verify_user(r.users, email, p) = None)

C13_Witness ==
    /\ event = Ev("signup", "ok")
    /\ Cardinality(users) = 2
    /\ verify_user(users, EB, PSix).username = UTab
    /\ verify_user(users, EB, PSecret) = None

\* no two rows of users have the same username or the same email
UniqueUsers ==
    \A r, q \in users : (r.username = q.username \/ r.email = q.email) => r = q

\* C14: a signup whose username or email a stored row already has reports
\* the conflict and leaves the rows as they were; in every reachable state,
\* after any signups, changes of username and changes of email, no two rows
\* share a username or an email (or an id).
C14_UniqueUsernameAndEmail ==
    /\ [][\A inp \in SignupInputs :
             (/\ Signup(inp[1], inp[2], inp[3])
              /\ ~ SignupInvalid(inp[1], inp[2], inp[3])
              /\ \E r \in users : r.username = inp[1] \/ r.email = inp[2])
             => /\ event'.op = "signup"
                /\ event'.result \in {"username", "email"}
                /\ event'.result = "username" => \E r \in users : r.username = inp[1]
                /\ event'.result = "email" => \E r \in users : r.email = inp[2]
                /\ users' = users]_vars
    /\ [](UniqueUsers /\ \A r, q \in users : r.id = q.id => r = q)

C14_Witness ==
    /\ event = Ev("signup", "email")
    /\ \E r \in users : r.username = UTab /\ r.email = EA
    /\ Cardinality(users) = 1

\* C15: a change of email to the email of another row reports that the
\* email is already registered and leaves the rows and the session user as
\* they were; a change to the email the row of the session user already has
\* succeeds.
C15_EmailConflictKeepsEmail ==
    [][\A new_email \in ChangeEmailInputs :
          ChangeEmail(new_email) =>
              /\ (\E r \in users : r.email = new_email /\ r.id # user.id) =>
                     /\ update_email(users, user.id, new_email).raised
                     /\ event' = Ev("change_email", "already_exists")
                     /\ users' = users
                     /\ user' = user
                     /\ \E r \in users' : r.id = user.id /\ r.email = user.email
              /\ (\E r \in users : r.email = new_email /\ r.id = user.id) =>
                     /\ event' = Ev("change_email", "ok")
                     /\ users' = users
                     /\ user' = user]_vars

C15_Witness ==
    /\ event = Ev("change_email", "already_exists")
    /\ Cardinality(users) = 2
    /\ user \in users

\* C16: a session that starts on an address whose cookie is empty, is not
\* JSON or is an object without "user_id" or without "email" is anonymous
\* after its first run, with the store and the address as they were; for
\* every address load_auth_cookie binds nobody when the lookup in the store
\* raises, and the start that ends anonymous is always possible.
C16_BadTokenIsNoToken ==
    /\ [][\A qp \in Addresses :
             (SessionStart(qp) /\ qp # << >> /\ ~ IsToken(qp))
             => /\ user' = None
                /\ event' = Ev("session_start", "anonymous")
                /\ query_params' = qp
                /\ users' = users
                /\ notes' = notes]_vars
    /\ [](\A qp \in Addresses :
             /\ load_auth_cookie(qp, users, TRUE) = None
             /\ ENABLED (/\ SessionStart(qp)
                         /\ user' = None
                         /\ event' = Ev("session_start", "anonymous")))

C16_Witness ==
    /\ event = Ev("session_start", "anonymous")
    /\ query_params = <<json_dumps([keys |-> {"user_id"}, user_id |-> 1, email |-> Empty])>>
    /\ \E r \in users : r.id = 1
    /\ user = None

(***************************************************************************)
(* Properties of the session state across identities (DeleteSpec).         *)
(***************************************************************************)
\* C17: the session has one user slot, and a run that binds a user other
\* than the one bound before leaves nothing of an earlier user in the
\* session: every row of the cached notes belongs to the user now bound.
C17_NothingOfPriorIdentity ==
    [][(user' # None /\ user'.id # user.id) =>
          \A i \in DOMAIN notesCache' : notesCache'[i].user_id = user'.id]_vars

(***************************************************************************)
(* The token the program writes (SessionSpec).                             *)
(***************************************************************************)
\* C18: within a session the address gets a token it did not have only in
\* a run of the login form that logs a user in with "Remember me" ticked,
\* and the token is then the JSON object with the id and the email of that
\* user; a login without "Remember me", accepted or not, leaves the address
\* as it was.
C18_TokenOnlyByRememberedLogin ==
    [][/\ (query_params' # query_params /\ query_params' # << >>
           /\ event'.op # "session_start") =>
              /\ event' = Ev("login", "ok")
              /\ \E inp \in SessionLogins : Login(inp[1], inp[2], TRUE)
       /\ \A inp \in SessionLogins :
              /\ (Login(inp[1], inp[2], TRUE) /\ event' = Ev("login", "ok")) =>
                     /\ user' \in users
                     /\ user'.email = inp[1]
                     /\ IsToken(query_params')
                     /\ json_loads(query_params'[1]).keys = {"user_id", "email"}
                     /\ json_loads(query_params'[1]).user_id = user'.id
                     /\ json_loads(query_params'[1]).email = user'.email
              /\ Login(inp[1], inp[2], FALSE) => query_params' = query_params]_vars

C18_Witness ==
    /\ event = Ev("login", "ok")
    /\ user \in users
    /\ user.id = 2
    /\ query_params = <<json_dumps(TokenObject(2, user.email))>>

(***************************************************************************)
(* Properties of the notes (NotesSpec).                                    *)
(***************************************************************************)
\* C19: every row of notes that a run removes or changes belongs to the
\* user the session is bound to in that run; the rows of other users stay
\* as they are.
C19_OnlyOwnNotesModified ==
    [][\A n \in notes : n \notin notes' => (user # None /\ n.user_id = user.id)]_vars

(***************************************************************************)
(* The confirmation flag across logins (DeleteSpec).                       *)
(***************************************************************************)
\* C20: the flag does not pass from one authenticated period to the next:
\* the run that binds a user leaves the flag unset, so that a cascade for a
\* user is always preceded, since that user was bound, by a run of Delete
\* Account; in particular no cascade runs right after the run that bound the
\* user.
C20_FlagNotCarriedOver ==
    [][/\ (user' # None /\ user'.id # user.id) => ~ show_delete_confirm'
       /\ event'.op = "yes_delete" =>
              event.op \notin {"login", "cookie", "session_start"}]_vars

(***************************************************************************)
(* The token and the session user (RememberSpec).                          *)
(***************************************************************************)
\* C21: while a user is bound and the address carries a token, the token
\* names the id and the email of the session user, and so a reload of the
\* address, whose lookup finds the row the token names, binds that user
\* again.
C21_TokenIsSessionUser ==
    (Authenticated /\ IsToken(query_params)) =>
        /\ json_loads(query_params[1]).user_id = user.id
        /\ json_loads(query_params[1]).email = user.email
        /\ load_auth_cookie(query_params, users, FALSE).id = user.id

(***************************************************************************)
(* The edit mode of the notes (NotesSpec).                                 *)
(***************************************************************************)
\* the ids of the notes whose text area is enabled: line 525 looks up the
\* position of the note in st.session_state.editing
EditModeIds == {Displayed[idx + 1].id : idx \in {i \in editing : i < Len(Displayed)}}

\* C22: a note comes into edit mode only in the run of the edit button of
\* that same note, whatever was saved, deleted or cleared and whoever logged
\* out and in before; and update_note rewrites only a note in edit mode.
C22_EditModeFollowsNote ==
    [][/\ \A id \in EditModeIds' \ EditModeIds :
              \E idx \in Positions : /\ ToggleEdit(idx)
                                     /\ idx \notin editing
                                     /\ Displayed[idx + 1].id = id
       /\ \A n \in notes : (event'.op = "edit_note" /\ n \notin notes') =>
              n.id \in EditModeIds]_vars
====
